---- MODULE Spec2Model ----
(***************************************************************************)
(* A model of the weighted directed graph store (Wdgraph.py) and of the    *)
(* DAG solver built on it (app.py): Kahn's topological sort and the        *)
(* longest-path / critical-path computation.                               *)
(*                                                                         *)
(* Python objects live in `heap` (reference -> Wdgraph value), so that a   *)
(* copy that aliases its original is expressible.  Handles are 0-based as  *)
(* in the code; TLA+ sequences are 1-based, hence the "+ 1" on indexing.   *)
(***************************************************************************)
EXTENDS Integers, Sequences, FiniteSets, TLC

\* The node labels callers use; "s" and "t" are the solver's terminals.
LabelSeq == <<"s", "a", "t">>
Labels == {LabelSeq[i] : i \in 1..Len(LabelSeq)}
\* Python's None (never a label here).
None == "None"
\* Edge weights of the solver's input graphs: signed, with two distinct
\* positive values.
Weights == {-1, 0, 1, 2}
\* Edge weights the Graph Store's caller uses (the store never inspects them).
StoreWeights == {1, 2}
\* Bound on the number of edges of a solver input graph.
MaxEdges == 3
\* Bound on the number of edges the Graph Store's caller keeps in the graph.
MaxStoreEdges == 2

VARIABLES
    heap,           \* reference -> Wdgraph object
    graph,          \* reference of the caller's graph
    call,           \* the last Graph Store call and its outcome
    pc,             \* position inside solve_max_path / kahns_algorithm
    G,              \* kahns_algorithm: reference of the working copy
    S,              \* kahns_algorithm: frontier set
    L,              \* kahns_algorithm: output list
    sorted_nodes,   \* solve_max_path: the topological order
    idx,            \* solve_max_path: position of the forward for-loop
    dist,           \* solve_max_path: label -> distance
    critical_path,  \* solve_max_path: path under construction (backwards)
    current,        \* solve_max_path: node of the backward walk
    result          \* outcome of solve_max_path

vars == <<heap, graph, call, pc, G, S, L, sorted_nodes, idx, dist,
          critical_path, current, result>>

solverVars == <<pc, G, S, L, sorted_nodes, idx, dist, critical_path,
                current, result>>

NoErr == "none"

\* No Graph Store call has been made yet.
NoCall == [op |-> "none", args |-> <<>>, err |-> NoErr, val |-> None]

\* solve_max_path has not ended / has raised the exception e.
NoResult == [kind |-> "none", err |-> NoErr, length |-> 0, path |-> <<>>]

Raised(e) == [kind |-> "error", err |-> e, length |-> 0, path |-> <<>>]

----------------------------------------------------------------------------
(* Wdgraph.py                                                              *)

Wdgraph_init ==
    [len |-> 0, hashmap |-> <<>>, directmap |-> <<>>, adj_list |-> <<>>]

\* register_node without the membership test: always appends.
register_node_always(g, u) ==
    [g   |-> [len       |-> g.len + 1,
              hashmap   |-> [x \in DOMAIN g.hashmap \cup {u} |->
                                IF x = u THEN g.len ELSE g.hashmap[x]],
              directmap |-> Append(g.directmap, u),
              adj_list  |-> Append(g.adj_list, <<>>)],
     ret |-> (g.len + 1) - 1]

register_node(g, u) ==
    IF u \in DOMAIN g.hashmap
    THEN [g |-> g, ret |-> g.hashmap[u]]
    ELSE [g   |-> [len       |-> g.len + 1,
                   hashmap   |-> [x \in DOMAIN g.hashmap \cup {u} |->
                                     IF x = u THEN g.len ELSE g.hashmap[x]],
                   directmap |-> Append(g.directmap, u),
                   adj_list  |-> Append(g.adj_list, <<>>)],
          ret |-> (g.len + 1) - 1]

map_value(g, u) ==
    IF u \in DOMAIN g.hashmap
    THEN [err |-> NoErr, ret |-> g.hashmap[u]]
    ELSE [err |-> "UnregisteredNode", ret |-> 0]

\* Index of the first [target, weight] entry of adj whose target is n, or 0.
FirstTarget(adj, n) ==
    LET hits == {i \in 1..Len(adj) : adj[i][1] = n}
    IN  IF hits = {} THEN 0
        ELSE CHOOSE i \in hits : \A j \in hits : i <= j

\* Index of the last entry of adj whose target is n, or 0.
LastTarget(adj, n) ==
    LET hits == {i \in 1..Len(adj) : adj[i][1] = n}
    IN  IF hits = {} THEN 0
        ELSE CHOOSE i \in hits : \A j \in hits : i >= j

\* raw_set_edge without the scan for an existing entry: always appends.
raw_set_edge_append(g, n1, n2, w) ==
    [g EXCEPT !.adj_list[n1 + 1] = Append(@, <<n2, w>>)]

\* raw_set_edge whose scan does not compare the target: overwrites the
\* first entry of the list.
raw_set_edge_first(g, n1, n2, w) ==
    IF Len(g.adj_list[n1 + 1]) > 0
    THEN [g EXCEPT !.adj_list[n1 + 1][1] = <<n2, w>>]
    ELSE [g EXCEPT !.adj_list[n1 + 1] = Append(@, <<n2, w>>)]

raw_set_edge(g, n1, n2, w) ==
    LET i == FirstTarget(g.adj_list[n1 + 1], n2)
    IN  IF i # 0
        THEN [g EXCEPT !.adj_list[n1 + 1][i][2] = w]
        ELSE [g EXCEPT !.adj_list[n1 + 1] = Append(@, <<n2, w>>)]

set_edge(g, u, v, w) ==
    LET r1 == register_node(g, u)
        r2 == register_node(r1.g, v)
    IN  raw_set_edge(r2.g, r1.ret, r2.ret, w)

get_edge(g, u, v) ==
    LET m1 == map_value(g, u)
        m2 == map_value(g, v)
    IN  IF m1.err # NoErr THEN [err |-> m1.err, ret |-> 0]
        ELSE IF m2.err # NoErr THEN [err |-> m2.err, ret |-> 0]
        ELSE LET adj == g.adj_list[m1.ret + 1]
                 i   == FirstTarget(adj, m2.ret)
             IN  IF i # 0 THEN [err |-> NoErr, ret |-> adj[i][2]]
                 ELSE [err |-> "EdgeNotFound", ret |-> 0]

\* all_edges that flattens the adjacency list of handle 0 only.
all_edges_first(g) ==
    IF Len(g.adj_list) = 0 THEN <<>> ELSE g.adj_list[1]

all_edges(g) ==
    LET RECURSIVE flat(_)
        flat(k) == IF k > Len(g.adj_list) THEN <<>>
                   ELSE g.adj_list[k] \o flat(k + 1)
    IN  flat(1)

\* list.pop() in place of list.remove(x): drops the last element.
ListRemove_pop(seq, x) == SubSeq(seq, 1, Len(seq) - 1)

\* remove_edge that returns without touching the adjacency list.
remove_edge_keep(g, u, v) == [g |-> g, err |-> NoErr]

\* list.remove(x): drops the first element equal to x.
ListRemove(seq, x) ==
    LET hits == {i \in 1..Len(seq) : seq[i] = x}
        i    == CHOOSE k \in hits : \A j \in hits : k <= j
    IN  [k \in 1..(Len(seq) - 1) |-> IF k < i THEN seq[k] ELSE seq[k + 1]]

remove_edge(g, u, v) ==
    LET m1 == map_value(g, u)
        m2 == map_value(g, v)
    IN  IF m1.err # NoErr THEN [g |-> g, err |-> m1.err]
        ELSE IF m2.err # NoErr THEN [g |-> g, err |-> m2.err]
        ELSE LET adj == g.adj_list[m1.ret + 1]
                 i   == LastTarget(adj, m2.ret)
             IN  IF i # 0
                 THEN [g   |-> [g EXCEPT !.adj_list[m1.ret + 1] =
                                    ListRemove(adj, adj[i])],
                       err |-> NoErr]
                 ELSE [g |-> g, err |-> "EdgeNotFound"]

get_outdegree(g, u) ==
    LET m == map_value(g, u)
    IN  IF m.err # NoErr THEN [err |-> m.err, ret |-> 0]
        ELSE [err |-> NoErr, ret |-> Len(g.adj_list[m.ret + 1])]

get_outneighbors(g, u) ==
    LET m == map_value(g, u)
    IN  IF m.err # NoErr THEN [err |-> m.err, ret |-> <<>>]
        ELSE LET adj == g.adj_list[m.ret + 1]
             IN  [err |-> NoErr,
                  ret |-> [i \in 1..Len(adj) |->
                              <<g.directmap[adj[i][1] + 1], adj[i][2]>>]]

\* get_inneighbors that returns at the first match of its scan.
get_inneighbors_first(g, u) ==
    LET m == map_value(g, u)
        RECURSIVE scan(_)
        scan(k) ==
            IF k > Len(g.adj_list) THEN <<>>
            ELSE LET outs == SelectSeq(g.adj_list[k],
                                       LAMBDA e : e[1] = m.ret)
                 IN  IF outs # <<>>
                     THEN <<<<g.directmap[k], outs[1][2]>>>>
                     ELSE scan(k + 1)
    IN  IF m.err # NoErr THEN [err |-> m.err, ret |-> <<>>]
        ELSE [err |-> NoErr, ret |-> scan(1)]

get_inneighbors(g, u) ==
    LET m == map_value(g, u)
        RECURSIVE scan(_)
        scan(k) ==
            IF k > Len(g.adj_list) THEN <<>>
            ELSE LET outs == SelectSeq(g.adj_list[k],
                                       LAMBDA e : e[1] = m.ret)
                 IN  [i \in 1..Len(outs) |-> <<g.directmap[k], outs[i][2]>>]
                     \o scan(k + 1)
    IN  IF m.err # NoErr THEN [err |-> m.err, ret |-> <<>>]
        ELSE [err |-> NoErr, ret |-> scan(1)]

RECURSIVE Gcd(_, _)
Gcd(a, b) == IF b = 0 THEN a ELSE Gcd(b, a % b)

\* The number n / d (d # 0) in lowest terms with a positive denominator.
\* create_probability_graph works on such numbers: an integer weight w is
\* Number(w, 1), and a quotient is kept exact (the rounding of Python's
\* float is not modelled).
Number(n, d) ==
    LET p == IF d < 0 THEN -n ELSE n
        q == IF d < 0 THEN -d ELSE d
        c == Gcd(IF p < 0 THEN -p ELSE p, q)
    IN  [num |-> p \div c, den |-> q \div c]

\* sum([weight for target, weight in adj])
Total(adj) ==
    LET RECURSIVE sum(_)
        sum(i) ==
            IF i > Len(adj) THEN Number(0, 1)
            ELSE LET w == adj[i][2]
                     r == sum(i + 1)
                 IN  Number(w.num * r.den + r.num * w.den, w.den * r.den)
    IN  sum(1)

\* weight / total, for total # 0.
TrueDiv(weight, total) ==
    Number(weight.num * total.den, weight.den * total.num)

\* create_probability_graph that refuses every node whose total is zero,
\* a node without outgoing edges included.
create_probability_graph_strict(g) ==
    LET RECURSIVE inner(_, _, _, _)
        inner(cur, source, total, i) ==
            IF i > Len(cur.adj_list[source + 1])
            THEN [g |-> cur, err |-> NoErr]
            ELSE LET e == cur.adj_list[source + 1][i]
                 IN  inner(raw_set_edge(cur, source, e[1],
                                        TrueDiv(e[2], total)),
                           source, total, i + 1)
        RECURSIVE outer(_, _)
        outer(cur, source) ==
            IF source >= Len(cur.adj_list) THEN [g |-> cur, err |-> NoErr]
            ELSE IF Total(cur.adj_list[source + 1]).num = 0
                 THEN [g |-> cur, err |-> "ZeroDivisionError"]
                 ELSE outer(inner(cur, source,
                                  Total(cur.adj_list[source + 1]), 1).g,
                            source + 1)
    IN  outer(g, 0)

\* For each handle in turn: total = the sum of the row's weights, then each
\* entry of the row is set to weight / total; the first division by a zero
\* total raises ZeroDivisionError and leaves the earlier rows rescaled.
create_probability_graph(g) ==
    LET RECURSIVE inner(_, _, _, _)
        inner(cur, source, total, i) ==
            IF i > Len(cur.adj_list[source + 1])
            THEN [g |-> cur, err |-> NoErr]
            ELSE IF total.num = 0
                 THEN [g |-> cur, err |-> "ZeroDivisionError"]
                 ELSE LET e == cur.adj_list[source + 1][i]
                      IN  inner(raw_set_edge(cur, source, e[1],
                                             TrueDiv(e[2], total)),
                                source, total, i + 1)
        RECURSIVE outer(_, _)
        outer(cur, source) ==
            IF source >= Len(cur.adj_list) THEN [g |-> cur, err |-> NoErr]
            ELSE LET r == inner(cur, source,
                                Total(cur.adj_list[source + 1]), 1)
                 IN  IF r.err # NoErr THEN r ELSE outer(r.g, source + 1)
    IN  outer(g, 0)

get_nodes(g) == g.directmap

\* get_nodes_without_incoming that does not count an edge from a node to
\* itself as incoming.
get_nodes_without_incoming_noself(g) ==
    LET all_nodes     == {g.directmap[i] : i \in 1..Len(g.directmap)}
        with_incoming == UNION {{g.directmap[g.adj_list[k][i][1] + 1] :
                                    i \in {j \in 1..Len(g.adj_list[k]) :
                                              g.adj_list[k][j][1] # k - 1}} :
                                k \in 1..Len(g.adj_list)}
    IN  all_nodes \ with_incoming

get_nodes_without_incoming(g) ==
    LET all_nodes     == {g.directmap[i] : i \in 1..Len(g.directmap)}
        with_incoming == UNION {{g.directmap[g.adj_list[k][i][1] + 1] :
                                    i \in 1..Len(g.adj_list[k])} :
                                k \in 1..Len(g.adj_list)}
    IN  all_nodes \ with_incoming

\* "copy" that hands back the original object itself (G = graph).
copy_alias(h, r) == [heap |-> h, ret |-> r]

\* copy: a new Wdgraph object whose four fields are deep copies.
copy(h, r) ==
    LET new == Cardinality(DOMAIN h) + 1
        new_graph == [len       |-> h[r].len,
                      hashmap   |-> h[r].hashmap,
                      directmap |-> h[r].directmap,
                      adj_list  |-> h[r].adj_list]
    IN  [heap |-> [x \in DOMAIN h \cup {new} |->
                      IF x = new THEN new_graph ELSE h[x]],
         ret  |-> new]

----------------------------------------------------------------------------
(* Views of a graph used to state properties.                              *)

Registered(g) == DOMAIN g.hashmap

\* The multiset of stored edges as label triples, one per adjacency entry.
EdgeEntries(g) ==
    UNION {{<<k, i>> : i \in 1..Len(g.adj_list[k])} :
           k \in 1..Len(g.adj_list)}

EdgeCount(g) == Cardinality(EdgeEntries(g))

\* <<u, v, w>>: there is an entry for the edge u -> v with weight w.
Edges(g) ==
    {<<g.directmap[e[1]], g.directmap[g.adj_list[e[1]][e[2]][1] + 1],
       g.adj_list[e[1]][e[2]][2]>> : e \in EdgeEntries(g)}

HasEdge(g, u, v) == \E e \in Edges(g) : e[1] = u /\ e[2] = v

----------------------------------------------------------------------------
(* The caller of the Graph Store: one action per call.                     *)

InitStore ==
    /\ heap = [r \in {1} |-> Wdgraph_init]
    /\ graph = 1
    /\ call = NoCall
    /\ pc = "store"
    /\ G = 0
    /\ S = {}
    /\ L = <<>>
    /\ sorted_nodes = <<>>
    /\ idx = 0
    /\ dist = <<>>
    /\ critical_path = <<>>
    /\ current = None
    /\ result = NoResult

RegisterNode(u) ==
    /\ pc = "store"
    /\ LET r == register_node(heap[graph], u)
       IN  /\ heap' = [heap EXCEPT ![graph] = r.g]
           /\ call' = [op |-> "register_node", args |-> <<u>>, err |-> NoErr,
                       val |-> r.ret]
    /\ UNCHANGED <<graph, solverVars>>

SetEdge(u, v, w) ==
    /\ pc = "store"
    /\ LET g2 == set_edge(heap[graph], u, v, w)
       IN  /\ EdgeCount(g2) <= MaxStoreEdges
           /\ heap' = [heap EXCEPT ![graph] = g2]
           /\ call' = [op |-> "set_edge", args |-> <<u, v, w>>, err |-> NoErr,
                       val |-> None]
    /\ UNCHANGED <<graph, solverVars>>

RemoveEdge(u, v) ==
    /\ pc = "store"
    /\ LET r == remove_edge(heap[graph], u, v)
       IN  /\ heap' = [heap EXCEPT ![graph] = r.g]
           /\ call' = [op |-> "remove_edge", args |-> <<u, v>>, err |-> r.err,
                       val |-> None]
    /\ UNCHANGED <<graph, solverVars>>

NextStore ==
    \/ \E u \in Labels : RegisterNode(u)
    \/ \E u, v \in Labels : \E w \in StoreWeights : SetEdge(u, v, w)
    \/ \E u, v \in Labels : RemoveEdge(u, v)

Spec == InitStore /\ [][NextStore]_vars

----------------------------------------------------------------------------
(* The graphs a caller builds, as app.py's generate_graph does.            *)

\* All ordered pairs of labels, in the order the caller sets edges.
PairSeq ==
    [k \in 1..(Len(LabelSeq) * Len(LabelSeq)) |->
        <<LabelSeq[((k - 1) \div Len(LabelSeq)) + 1],
          LabelSeq[((k - 1) % Len(LabelSeq)) + 1]>>]

\* A graph as a caller builds it: an optional explicit register_node(pre),
\* then one set_edge per pair of E, with the weights wt.
BuildGraph(pre, E, wt) ==
    LET calls == SelectSeq(PairSeq, LAMBDA p : p \in E)
        g0    == IF pre = None THEN Wdgraph_init
                 ELSE register_node(Wdgraph_init, pre).g
        RECURSIVE build(_, _)
        build(g, k) ==
            IF k > Len(calls) THEN g
            ELSE build(set_edge(g, calls[k][1], calls[k][2], wt[calls[k]]),
                       k + 1)
    IN  build(g0, 1)

----------------------------------------------------------------------------
(* A caller that reads a graph it has built: one action per call.          *)

\* Bound on the number of edges of the graphs the reading caller builds.
MaxQueryEdges == 3

\* The state after the caller has built a graph of at most n edges with
\* weights from W.
InitBuilt(n, W) ==
    /\ \E pre \in Labels \cup {None} :
         \E E \in {X \in SUBSET (Labels \X Labels) :
                       Cardinality(X) <= n} :
           \E wt \in [E -> W] :
             heap = [r \in {1} |-> BuildGraph(pre, E, wt)]
    /\ graph = 1
    /\ call = NoCall
    /\ pc = "store"
    /\ G = 0
    /\ S = {}
    /\ L = <<>>
    /\ sorted_nodes = <<>>
    /\ idx = 0
    /\ dist = <<>>
    /\ critical_path = <<>>
    /\ current = None
    /\ result = NoResult

InitQuery == InitBuilt(MaxQueryEdges, StoreWeights)

\* set_edge's lookup in place of map_value: unknown labels are registered.
GetEdge_register(u, v) ==
    /\ pc = "store"
    /\ LET g1 == register_node(heap[graph], u).g
           g2 == register_node(g1, v).g
           r  == get_edge(g2, u, v)
       IN  /\ heap' = [heap EXCEPT ![graph] = g2]
           /\ call' = [op |-> "get_edge", args |-> <<u, v>>, err |-> r.err,
                       val |-> r.ret]
    /\ UNCHANGED <<graph, solverVars>>

GetEdge(u, v) ==
    /\ pc = "store"
    /\ LET r == get_edge(heap[graph], u, v)
       IN  call' = [op |-> "get_edge", args |-> <<u, v>>, err |-> r.err,
                    val |-> r.ret]
    /\ UNCHANGED <<heap, graph, solverVars>>

GetOutdegree(u) ==
    /\ pc = "store"
    /\ LET r == get_outdegree(heap[graph], u)
       IN  call' = [op |-> "get_outdegree", args |-> <<u>>, err |-> r.err,
                    val |-> r.ret]
    /\ UNCHANGED <<heap, graph, solverVars>>

GetOutneighbors(u) ==
    /\ pc = "store"
    /\ LET r == get_outneighbors(heap[graph], u)
       IN  call' = [op |-> "get_outneighbors", args |-> <<u>>, err |-> r.err,
                    val |-> r.ret]
    /\ UNCHANGED <<heap, graph, solverVars>>

GetInneighbors(u) ==
    /\ pc = "store"
    /\ LET r == get_inneighbors(heap[graph], u)
       IN  call' = [op |-> "get_inneighbors", args |-> <<u>>, err |-> r.err,
                    val |-> r.ret]
    /\ UNCHANGED <<heap, graph, solverVars>>

GetNodesWithoutIncoming ==
    /\ pc = "store"
    /\ call' = [op |-> "get_nodes_without_incoming", args |-> <<>>,
                err |-> NoErr,
                val |-> get_nodes_without_incoming(heap[graph])]
    /\ UNCHANGED <<heap, graph, solverVars>>

NextQuery ==
    \/ \E u, v \in Labels : RemoveEdge(u, v)
    \/ \E u, v \in Labels : GetEdge(u, v)
    \/ \E u \in Labels : GetOutdegree(u)
    \/ \E u \in Labels : GetOutneighbors(u)
    \/ \E u \in Labels : GetInneighbors(u)
    \/ GetNodesWithoutIncoming

QuerySpec == InitQuery /\ [][NextQuery]_vars

----------------------------------------------------------------------------
(* A caller that takes a copy of a graph it has built and then calls       *)
(* either object: G is the reference copy() returned, 0 before the call.   *)
(* Calls after the copy are explored for as long as the two objects hold   *)
(* equal values.                                                           *)

\* Bound on the number of edges of the graph that is copied.
MaxCopyEdges == 2

InitCopy == InitBuilt(MaxCopyEdges, StoreWeights)

InSync == G # 0 /\ heap[G] = heap[graph]

Copy ==
    /\ pc = "store"
    /\ G = 0
    /\ LET c == copy(heap, graph)
       IN  /\ heap' = c.heap
           /\ G' = c.ret
           /\ call' = [op |-> "copy", args |-> <<>>, err |-> NoErr,
                       val |-> c.ret]
    /\ UNCHANGED <<graph, S, L, sorted_nodes, idx, dist, critical_path,
                   current, result, pc>>

RegisterNodeOnCopy(u) ==
    /\ pc = "store"
    /\ G # 0
    /\ LET r == register_node(heap[G], u)
       IN  /\ heap' = [heap EXCEPT ![G] = r.g]
           /\ call' = [op |-> "copy.register_node", args |-> <<u>>,
                       err |-> NoErr, val |-> r.ret]
    /\ UNCHANGED <<graph, solverVars>>

SetEdgeOnCopy(u, v, w) ==
    /\ pc = "store"
    /\ G # 0
    /\ LET g2 == set_edge(heap[G], u, v, w)
       IN  /\ EdgeCount(g2) <= MaxStoreEdges
           /\ heap' = [heap EXCEPT ![G] = g2]
           /\ call' = [op |-> "copy.set_edge", args |-> <<u, v, w>>,
                       err |-> NoErr, val |-> None]
    /\ UNCHANGED <<graph, solverVars>>

RemoveEdgeOnCopy(u, v) ==
    /\ pc = "store"
    /\ G # 0
    /\ LET r == remove_edge(heap[G], u, v)
       IN  /\ heap' = [heap EXCEPT ![G] = r.g]
           /\ call' = [op |-> "copy.remove_edge", args |-> <<u, v>>,
                       err |-> r.err, val |-> None]
    /\ UNCHANGED <<graph, solverVars>>

NextCopy ==
    \/ InSync /\ NextStore
    \/ Copy
    \/ InSync /\ \E u \in Labels : RegisterNodeOnCopy(u)
    \/ InSync /\ \E u, v \in Labels : \E w \in StoreWeights :
                     SetEdgeOnCopy(u, v, w)
    \/ InSync /\ \E u, v \in Labels : RemoveEdgeOnCopy(u, v)

CopySpec == InitCopy /\ [][NextCopy]_vars

----------------------------------------------------------------------------
(* A caller that turns a graph it has built into a probability graph.      *)

\* Bound on the number of edges of the graph that is rescaled.
MaxProbEdges == 2

\* The weights of the solver's input graphs, as numbers.
ProbWeights == {Number(w, 1) : w \in Weights}

InitProb == InitBuilt(MaxProbEdges, ProbWeights)

CreateProbabilityGraph ==
    /\ pc = "store"
    /\ LET r == create_probability_graph(heap[graph])
       IN  /\ heap' = [heap EXCEPT ![graph] = r.g]
           /\ call' = [op |-> "create_probability_graph", args |-> <<>>,
                       err |-> r.err, val |-> None]
    /\ UNCHANGED <<graph, solverVars>>

NextProb == CreateProbabilityGraph

ProbSpec == InitProb /\ [][NextProb]_vars

----------------------------------------------------------------------------
(* Helpers of kahns_algorithm and solve_max_path.                          *)

Reverse(seq) == [i \in 1..Len(seq) |-> seq[Len(seq) + 1 - i]]

\* dict(zip(keys, [0 for i in range(n)]))
ZipZero(keys, n) ==
    LET k == IF Len(keys) < n THEN Len(keys) ELSE n
    IN  [x \in {keys[i] : i \in 1..k} |-> 0]

\* The body of Kahn's inner loop with the indegree test left out: m joins
\* the frontier as soon as one of its incoming edges is removed.
KahnVisit_nocheck(st, n, m) ==
    IF st.err # NoErr THEN st
    ELSE LET r == remove_edge(st.g, n, m)
         IN  IF r.err # NoErr THEN [st EXCEPT !.err = r.err]
             ELSE [g |-> r.g, S |-> st.S \cup {m}, err |-> NoErr]

\* The body of Kahn's inner loop for the neighbour m of the popped node n;
\* st = [g: working copy, S: frontier, err: exception raised so far].
KahnVisit(st, n, m) ==
    IF st.err # NoErr THEN st
    ELSE LET r == remove_edge(st.g, n, m)
         IN  IF r.err # NoErr THEN [st EXCEPT !.err = r.err]
             ELSE LET inn == get_inneighbors(r.g, m)
                  IN  IF inn.err # NoErr
                      THEN [g |-> r.g, S |-> st.S, err |-> inn.err]
                      ELSE [g   |-> r.g,
                            S   |-> IF inn.ret = <<>> THEN st.S \cup {m}
                                    ELSE st.S,
                            err |-> NoErr]

\* The inner for-loop of kahns_algorithm over the neighbours of n, captured
\* before any removal.
KahnIteration(g, S0, n) ==
    LET nbrs == get_outneighbors(g, n)
        RECURSIVE loop(_, _)
        loop(st, k) == IF k > Len(nbrs.ret) THEN st
                       ELSE loop(KahnVisit(st, n, nbrs.ret[k][1]), k + 1)
    IN  IF nbrs.err # NoErr THEN [g |-> g, S |-> S0, err |-> nbrs.err]
        ELSE loop([g |-> g, S |-> S0, err |-> NoErr], 1)

\* The relaxation with the distance of the source forgotten (d = weight).
ForwardRelax_weight(acc, d, source, weight) ==
    IF acc.err # NoErr THEN acc
    ELSE IF weight > acc.max_dist
         THEN [max_dist |-> weight, max_source |-> source, err |-> NoErr]
         ELSE acc

\* The body of the forward pass's inner loop for the inneighbour
\* (source, weight); d is the dist dictionary.
ForwardRelax(acc, d, source, weight) ==
    IF acc.err # NoErr THEN acc
    ELSE IF source \notin DOMAIN d THEN [acc EXCEPT !.err = "KeyError"]
    ELSE IF d[source] + weight > acc.max_dist
         THEN [max_dist |-> d[source] + weight, max_source |-> source,
               err |-> NoErr]
         ELSE acc

\* The inner for-loop of the forward pass for one target.
ForwardMax(g, d, target) ==
    LET inn == get_inneighbors(g, target)
        RECURSIVE loop(_, _)
        loop(acc, k) ==
            IF k > Len(inn.ret) THEN acc
            ELSE loop(ForwardRelax(acc, d, inn.ret[k][1], inn.ret[k][2]),
                      k + 1)
        start == [max_dist |-> 0, max_source |-> None, err |-> NoErr]
    IN  IF inn.err # NoErr THEN [start EXCEPT !.err = inn.err]
        ELSE loop(start, 1)

\* The body of the backward walk's inner loop; max_dist starts at -inf,
\* which acc.inf records.
BackwardPick(acc, d, source) ==
    IF acc.err # NoErr THEN acc
    ELSE IF source \notin DOMAIN d THEN [acc EXCEPT !.err = "KeyError"]
    ELSE IF acc.inf \/ d[source] > acc.max_dist
         THEN [inf |-> FALSE, max_dist |-> d[source], max_node |-> source,
               err |-> NoErr]
         ELSE acc

\* The inner for-loop of the backward walk at node cur.
BackwardMax(g, d, cur) ==
    LET inn == get_inneighbors(g, cur)
        RECURSIVE loop(_, _)
        loop(acc, k) ==
            IF k > Len(inn.ret) THEN acc
            ELSE loop(BackwardPick(acc, d, inn.ret[k][1]), k + 1)
        start == [inf |-> TRUE, max_dist |-> 0, max_node |-> None,
                  err |-> NoErr]
    IN  IF inn.err # NoErr THEN [start EXCEPT !.err = inn.err]
        ELSE loop(start, 1)

\* The graph generate_graph builds for the tasks A (cost 2), B (cost 5) and
\* D (cost 14, depends on B); the terminals A and D are then linked to "t"
\* (in either order the same graph results).
ExampleGraph ==
    LET g1 == set_edge(Wdgraph_init, "s", "A", 2)
        g2 == set_edge(g1, "s", "B", 5)
        g3 == set_edge(g2, "B", "D", 14)
    IN  set_edge(set_edge(g3, "A", "t", 0), "D", "t", 0)

\* solve_max_path(graph) is called on a graph built by set_edge calls: any
\* graph of at most MaxEdges edges over Labels, or the example graph.
InitSolver ==
    /\ \/ \E pre \in Labels \cup {None} :
            \E E \in {X \in SUBSET (Labels \X Labels) :
                        Cardinality(X) <= MaxEdges} :
               \E wt \in [E -> Weights] :
                  heap = [r \in {1} |-> BuildGraph(pre, E, wt)]
       \/ heap = [r \in {1} |-> ExampleGraph]
    /\ graph = 1
    /\ call = NoCall
    /\ pc = "kahn_start"
    /\ G = 0
    /\ S = {}
    /\ L = <<>>
    /\ sorted_nodes = <<>>
    /\ idx = 0
    /\ dist = <<>>
    /\ critical_path = <<>>
    /\ current = None
    /\ result = NoResult

\* G = graph.copy(); L = []; S = G.get_nodes_without_incoming()
KahnStart ==
    /\ pc = "kahn_start"
    /\ LET c == copy(heap, graph)
       IN  /\ heap' = c.heap
           /\ G' = c.ret
           /\ S' = get_nodes_without_incoming(c.heap[c.ret])
    /\ L' = <<>>
    /\ pc' = "kahn_loop"
    /\ UNCHANGED <<graph, call, sorted_nodes, idx, dist, critical_path,
                   current, result>>

\* One iteration of "while len(S) != 0": S.pop() removes an arbitrary element.
KahnLoop ==
    /\ pc = "kahn_loop"
    /\ S # {}
    /\ \E n \in S :
         LET it == KahnIteration(heap[G], S \ {n}, n)
         IN  /\ heap' = [heap EXCEPT ![G] = it.g]
             /\ S' = it.S
             /\ L' = Append(L, n)
             /\ IF it.err # NoErr
                THEN pc' = "done" /\ result' = Raised(it.err)
                ELSE pc' = "kahn_loop" /\ result' = result
    /\ UNCHANGED <<graph, call, G, sorted_nodes, idx, dist, critical_path,
                   current>>

\* The loop has ended and edges remain: raise Exception("Graph has a cycle").
KahnCycle ==
    /\ pc = "kahn_loop"
    /\ S = {}
    /\ all_edges(heap[G]) # <<>>
    /\ pc' = "done"
    /\ result' = Raised("CycleDetected")
    /\ UNCHANGED <<heap, graph, call, G, S, L, sorted_nodes, idx, dist,
                   critical_path, current>>

\* The loop has ended and no edge remains: return L; solve_max_path stores
\* it in sorted_nodes and initialises dist.
KahnReturn ==
    /\ pc = "kahn_loop"
    /\ S = {}
    /\ all_edges(heap[G]) = <<>>
    /\ sorted_nodes' = L
    /\ dist' = ZipZero(L, heap[graph].len)
    /\ idx' = 1
    /\ pc' = "forward"
    /\ UNCHANGED <<heap, graph, call, G, S, L, critical_path, current, result>>

\* One iteration of "for target in sorted_nodes".
ForwardStep ==
    /\ pc = "forward"
    /\ idx <= Len(sorted_nodes)
    /\ LET target == sorted_nodes[idx]
           m      == ForwardMax(heap[graph], dist, target)
       IN  IF m.err # NoErr
           THEN /\ pc' = "done"
                /\ result' = Raised(m.err)
                /\ UNCHANGED <<dist, idx>>
           ELSE /\ dist' = [x \in DOMAIN dist \cup {target} |->
                               IF x = target THEN m.max_dist ELSE dist[x]]
                /\ idx' = idx + 1
                /\ UNCHANGED <<pc, result>>
    /\ UNCHANGED <<heap, graph, call, G, S, L, sorted_nodes, critical_path,
                   current>>

\* critical_path = ["t"]; current = "t"
BackwardInit ==
    /\ pc = "forward"
    /\ idx > Len(sorted_nodes)
    /\ critical_path' = <<"t">>
    /\ current' = "t"
    /\ pc' = "backward"
    /\ UNCHANGED <<heap, graph, call, G, S, L, sorted_nodes, idx, dist, result>>

\* The backward walk that also stops when no inneighbour was found.
BackwardStep_stop ==
    /\ pc = "backward"
    /\ current # "s"
    /\ LET m == BackwardMax(heap[graph], dist, current)
       IN  IF m.err # NoErr \/ m.max_node = None
           THEN /\ pc' = "done"
                /\ result' = [kind |-> "ok", err |-> NoErr,
                              length |-> IF "t" \in DOMAIN dist
                                         THEN dist["t"] ELSE 0,
                              path |-> Reverse(critical_path)]
                /\ UNCHANGED <<critical_path, current>>
           ELSE /\ critical_path' = Append(critical_path, m.max_node)
                /\ current' = m.max_node
                /\ UNCHANGED <<pc, result>>
    /\ UNCHANGED <<heap, graph, call, G, S, L, sorted_nodes, idx, dist>>

\* The backward walk with "current = max_node" left out.
BackwardStep_stay ==
    /\ pc = "backward"
    /\ current # "s"
    /\ LET m == BackwardMax(heap[graph], dist, current)
       IN  IF m.err # NoErr
           THEN /\ pc' = "done"
                /\ result' = Raised(m.err)
                /\ UNCHANGED <<critical_path, current>>
           ELSE /\ critical_path' = Append(critical_path, m.max_node)
                /\ current' = current
                /\ UNCHANGED <<pc, result>>
    /\ UNCHANGED <<heap, graph, call, G, S, L, sorted_nodes, idx, dist>>

\* The backward walk that looks for the inneighbour of greatest distance by
\* going through sorted_nodes, so that ties fall to the node sorted first.
BackwardStep_sorted ==
    /\ pc = "backward"
    /\ current # "s"
    /\ LET inn   == get_inneighbors(heap[graph], current)
           cands == SelectSeq(sorted_nodes,
                              LAMBDA x : \E i \in 1..Len(inn.ret) :
                                             inn.ret[i][1] = x)
           RECURSIVE loop(_, _)
           loop(acc, k) ==
               IF k > Len(cands) THEN acc
               ELSE loop(BackwardPick(acc, dist, cands[k]), k + 1)
           start == [inf |-> TRUE, max_dist |-> 0, max_node |-> None,
                     err |-> NoErr]
           m     == IF inn.err # NoErr THEN [start EXCEPT !.err = inn.err]
                    ELSE loop(start, 1)
       IN  IF m.err # NoErr
           THEN /\ pc' = "done"
                /\ result' = Raised(m.err)
                /\ UNCHANGED <<critical_path, current>>
           ELSE /\ critical_path' = Append(critical_path, m.max_node)
                /\ current' = m.max_node
                /\ UNCHANGED <<pc, result>>
    /\ UNCHANGED <<heap, graph, call, G, S, L, sorted_nodes, idx, dist>>

\* One iteration of "while current != 's'".
BackwardStep ==
    /\ pc = "backward"
    /\ current # "s"
    /\ LET m == BackwardMax(heap[graph], dist, current)
       IN  IF m.err # NoErr
           THEN /\ pc' = "done"
                /\ result' = Raised(m.err)
                /\ UNCHANGED <<critical_path, current>>
           ELSE /\ critical_path' = Append(critical_path, m.max_node)
                /\ current' = m.max_node
                /\ UNCHANGED <<pc, result>>
    /\ UNCHANGED <<heap, graph, call, G, S, L, sorted_nodes, idx, dist>>

\* critical_path = list(reversed(critical_path)); return dist["t"], critical_path
SolveReturn ==
    /\ pc = "backward"
    /\ current = "s"
    /\ pc' = "done"
    /\ result' = IF "t" \in DOMAIN dist
                 THEN [kind |-> "ok", err |-> NoErr, length |-> dist["t"],
                       path |-> Reverse(critical_path)]
                 ELSE Raised("KeyError")
    /\ UNCHANGED <<heap, graph, call, G, S, L, sorted_nodes, idx, dist,
                   critical_path, current>>

NextSolver ==
    \/ KahnStart
    \/ KahnLoop
    \/ KahnCycle
    \/ KahnReturn
    \/ ForwardStep
    \/ BackwardInit
    \/ BackwardStep
    \/ SolveReturn

SolverSpec == InitSolver /\ [][NextSolver]_vars

\* The steps of solve_max_path other than an iteration of Kahn's while-loop.
Straight ==
    \/ KahnStart
    \/ KahnCycle
    \/ KahnReturn
    \/ ForwardStep
    \/ BackwardInit
    \/ BackwardStep
    \/ SolveReturn

\* An iteration of Kahn's while-loop, told by what it does to L: it is
\* possible exactly when the loop condition len(S) != 0 holds.
KahnPop ==
    /\ pc = "kahn_loop"
    /\ S # {}
    /\ \E n \in S : L' = Append(L, n)

\* The interpreter keeps executing the call: a step that is possible is
\* eventually taken.
FairSolverSpec ==
    /\ InitSolver
    /\ [][NextSolver]_vars
    /\ WF_vars(Straight)
    /\ WF_L(KahnPop)

----------------------------------------------------------------------------
(* Graph-theoretic vocabulary for the properties, defined on the edge set  *)
(* and independently of the algorithms.                                    *)

\* The graph the caller passed.
Input == heap[graph]

Succ(g, X) == {e[2] : e \in {d \in Edges(g) : d[1] \in X}}

\* The labels reachable from some label of X by one or more edges.
RECURSIVE ReachFrom(_, _)
ReachFrom(g, X) ==
    LET Y == X \cup Succ(g, X)
    IN  IF Y = X THEN X ELSE ReachFrom(g, Y)

Descendants(g, u) == ReachFrom(g, Succ(g, {u}))

HasCycle(g) == \E u \in Registered(g) : u \in Descendants(g, u)

InDegreeZero(g) == {u \in Registered(g) : \A e \in Edges(g) : e[2] # u}

\* The weight of the edge u -> v (one entry per pair).
WeightOf(g, u, v) ==
    LET e == CHOOSE d \in Edges(g) : d[1] = u /\ d[2] = v
    IN  e[3]

\* p is a directed walk of the graph: consecutive labels are joined by edges.
IsWalk(g, p) ==
    \A i \in 1..(Len(p) - 1) : p[i] \in Registered(g) /\ HasEdge(g, p[i], p[i + 1])

RECURSIVE WalkWeight(_, _)
WalkWeight(g, p) ==
    IF Len(p) < 2 THEN 0
    ELSE WeightOf(g, p[1], p[2]) + WalkWeight(g, Tail(p))

\* All directed paths from u to v (in a DAG no path repeats a label).
Paths(g, u, v) ==
    {p \in UNION {[1..n -> Registered(g)] : n \in 2..Cardinality(Registered(g))} :
        p[1] = u /\ p[Len(p)] = v /\ IsWalk(g, p)}

SetMax(X) == CHOOSE x \in X : \A y \in X : y <= x

LongestPath(g, u, v) == SetMax({WalkWeight(g, p) : p \in Paths(g, u, v)})

\* Position of label u in the list l (0 when absent).
Pos(l, u) ==
    IF \E i \in 1..Len(l) : l[i] = u
    THEN CHOOSE i \in 1..Len(l) : l[i] = u
    ELSE 0

\* kahns_algorithm has ended (by return or by exception).
KahnEnded == pc \notin {"store", "kahn_start", "kahn_loop"}

\* The solver's precondition: a DAG whose only indegree-0 label is "s" and in
\* which "t" is reachable from "s".
SolverPre(g) ==
    /\ ~HasCycle(g)
    /\ InDegreeZero(g) = {"s"}
    /\ "t" \in Descendants(g, "s")

NonNegative(g) == \A e \in Edges(g) : e[3] >= 0

----------------------------------------------------------------------------
(* Properties of the DAG solver, checked under SolverSpec.                 *)

\* C1: on an acyclic graph, whatever S.pop() removes, kahns_algorithm returns
\* a list holding every registered label exactly once in which the source of
\* every edge of the input graph comes before its target.
C1_KahnTopologicalOrder ==
    (KahnEnded /\ ~HasCycle(Input)) =>
        /\ result.err # "CycleDetected"
        /\ Len(sorted_nodes) = Input.len
        /\ {sorted_nodes[i] : i \in 1..Len(sorted_nodes)} = Registered(Input)
        /\ \A i, j \in 1..Len(sorted_nodes) :
              sorted_nodes[i] = sorted_nodes[j] => i = j
        /\ \A e \in Edges(Input) :
              Pos(sorted_nodes, e[1]) < Pos(sorted_nodes, e[2])

\* Kahn has returned an order of three labels on a DAG with at least two
\* edges in which "s" is not the first label popped.
C1_Witness ==
    /\ pc = "forward"
    /\ ~HasCycle(Input)
    /\ EdgeCount(Input) >= 2
    /\ Len(sorted_nodes) = 3
    /\ sorted_nodes[1] # "s"

\* C2: on a graph with a directed cycle (a self-loop included), whatever the
\* pop order and the acyclic part, kahns_algorithm ends with the cycle error
\* and returns no list.
C2_KahnCycleDetected ==
    (KahnEnded /\ HasCycle(Input)) =>
        /\ pc = "done"
        /\ result = Raised("CycleDetected")
        /\ sorted_nodes = <<>>

\* The cycle error was raised after the loop had consumed an acyclic part.
C2_Witness ==
    /\ pc = "done"
    /\ HasCycle(Input)
    /\ result = Raised("CycleDetected")
    /\ Len(L) >= 1
    /\ EdgeCount(heap[G]) < EdgeCount(Input)

\* C3: on a DAG with non-negative weights whose only indegree-0 label is "s"
\* and in which "t" is reachable from "s", solve_max_path returns as length the
\* maximum weight sum over all directed paths from "s" to "t" (19 on the
\* example graph).
C3_LengthIsLongestPath ==
    (pc = "done" /\ SolverPre(Input) /\ NonNegative(Input)) =>
        /\ result.kind = "ok"
        /\ result.length = LongestPath(Input, "s", "t")
        /\ (Input = ExampleGraph => result.length = 19)

\* solve_max_path has returned 19 on the example graph.
C3_Witness ==
    /\ pc = "done"
    /\ Input = ExampleGraph
    /\ SolverPre(Input) /\ NonNegative(Input)
    /\ result.kind = "ok"
    /\ result.length = 19

\* C4: on a DAG whose only indegree-0 label is "s" and in which "t" is
\* reachable from "s", the returned path starts at "s", ends at "t", follows
\* edges of the graph, and its edge weights sum to the returned length.
\* Stated for the graphs with non-negative weights, on which the returned
\* length is the longest-path length (C3): a violation is then the backward
\* walk's own and owes nothing to the forward pass.
C4_PathRealisesLength ==
    (pc = "done" /\ SolverPre(Input) /\ NonNegative(Input)) =>
        /\ result.kind = "ok"
        /\ Len(result.path) >= 2
        /\ result.path[1] = "s"
        /\ result.path[Len(result.path)] = "t"
        /\ IsWalk(Input, result.path)
        /\ WalkWeight(Input, result.path) = result.length

\* C5: after the forward pass, for signed weights, dist[v] is the maximum over
\* the inneighbours (u, w) of v of dist[u] + w, and 0 when v has none.
C5_DistIsMaxOverInneighbors ==
    pc = "backward" =>
        \A v \in Registered(Input) :
            LET ins == {e \in Edges(Input) : e[2] = v}
            IN  dist[v] = IF ins = {} THEN 0
                          ELSE SetMax({dist[e[1]] + e[3] : e \in ins})

\* C6: no step of kahns_algorithm or solve_max_path changes the caller's
\* graph (mapping, edges, weights): removals act on the private copy only.
C6_CallerGraphUntouched ==
    [][graph' = graph /\ heap'[graph] = heap[graph]]_vars

\* solve_max_path has returned after Kahn's loop emptied the working copy,
\* and the caller's graph still has its edges.
C6_Witness ==
    /\ pc = "done"
    /\ result.kind = "ok"
    /\ G # graph
    /\ EdgeCount(heap[G]) = 0
    /\ EdgeCount(Input) = 3

\* "t" is not reachable from "s" in an acyclic graph.
Unreachable(g) == ~HasCycle(g) /\ "t" \notin Descendants(g, "s")

\* C7 as claimed: when "t" is unreachable from "s" in an acyclic graph,
\* solve_max_path returns normally with length 0.
C7_SilentZeroLength ==
    (pc = "done" /\ Unreachable(Input)) =>
        result.kind = "ok" /\ result.length = 0

\* C7 as amended: when "t" is unreachable from "s" in an acyclic graph,
\* solve_max_path returns nothing: the backward walk finds "t" unregistered,
\* or reaches a label without inneighbours other than "s", appends None and
\* the next get_inneighbors(None) raises the unregistered-node exception.
C7_UnreachableRaises ==
    (pc = "done" /\ Unreachable(Input)) =>
        /\ result = Raised("UnregisteredNode")
        /\ \/ "t" \notin Registered(Input) /\ critical_path = <<"t">>
           \/ /\ "t" \in Registered(Input)
              /\ current = None
              /\ critical_path[Len(critical_path)] = None
              /\ critical_path[Len(critical_path) - 1] \in
                     InDegreeZero(Input) \ {"s"}

\* The walk went from "t" to an inneighbour without inneighbours, with "s"
\* registered, and then failed.
C7_Witness ==
    /\ pc = "done"
    /\ Unreachable(Input)
    /\ {"s", "t"} \subseteq Registered(Input)
    /\ Len(critical_path) = 3
    /\ result = Raised("UnregisteredNode")

----------------------------------------------------------------------------
(* Properties of the Graph Store, checked under Spec.                      *)

\* Every adjacency list holds at most one entry per target handle.
UniqueTargets(g) ==
    \A k \in 1..Len(g.adj_list) :
        \A i, j \in 1..Len(g.adj_list[k]) :
            g.adj_list[k][i][1] = g.adj_list[k][j][1] => i = j

\* C8: after any sequence of register_node, set_edge and remove_edge calls
\* every adjacency list holds at most one entry per target, and set_edge on
\* an existing edge overwrites its weight and leaves the outdegree unchanged.
C8_OneEntryPerTarget ==
    /\ []UniqueTargets(heap[graph])
    /\ [][(call'.op = "set_edge" /\
           HasEdge(heap[graph], call'.args[1], call'.args[2])) =>
              LET u == call'.args[1]
                  v == call'.args[2]
                  w == call'.args[3]
              IN  /\ get_edge(heap'[graph], u, v) = [err |-> NoErr, ret |-> w]
                  /\ get_outdegree(heap'[graph], u) =
                         get_outdegree(heap[graph], u)
                  /\ EdgeCount(heap'[graph]) = EdgeCount(heap[graph])]_vars

\* set_edge(u, v, w) has just overwritten an edge in place: the entry for
\* u -> v carries w and is not the last of u's list, where a new entry goes.
C8_Witness ==
    /\ call.op = "set_edge"
    /\ LET g   == heap[graph]
           adj == g.adj_list[g.hashmap[call.args[1]] + 1]
       IN  /\ Len(adj) = 2
           /\ adj[1] = <<g.hashmap[call.args[2]], call.args[3]>>

\* The label/handle mapping is a bijection onto [0, N).
DenseBijection(g) ==
    /\ g.len = Len(g.directmap)
    /\ g.len = Len(g.adj_list)
    /\ g.len = Cardinality(DOMAIN g.hashmap)
    /\ \A i \in 0..(g.len - 1) :
          g.directmap[i + 1] \in DOMAIN g.hashmap /\ g.hashmap[g.directmap[i + 1]] = i
    /\ \A u \in DOMAIN g.hashmap :
          g.hashmap[u] \in 0..(g.len - 1) /\ g.directmap[g.hashmap[u] + 1] = u

\* C9: the mapping stays a bijection onto [0, N) with
\* N = len = len(directmap) = len(adj_list), a label keeps its handle, and
\* register_node on a known label returns that handle and changes nothing.
C9_DenseStableHandles ==
    /\ []DenseBijection(heap[graph])
    /\ [][/\ \A u \in Registered(heap[graph]) :
               /\ u \in Registered(heap'[graph])
               /\ heap'[graph].hashmap[u] = heap[graph].hashmap[u]
          /\ (call'.op = "register_node" /\
              call'.args[1] \in Registered(heap[graph])) =>
                 /\ call'.val = heap[graph].hashmap[call'.args[1]]
                 /\ heap' = heap]_vars

\* register_node has returned the handle 0 of a known label in a graph of
\* three nodes.
C9_Witness ==
    /\ call.op = "register_node"
    /\ call.val = 0
    /\ heap[graph].len = 3

\* The edges of g other than u -> v, with their weights.
OtherEdges(g, u, v) == {e \in Edges(g) : <<e[1], e[2]>> # <<u, v>>}

\* C10: set_edge(u, v, w), for equal or distinct, registered or unregistered
\* labels, makes get_edge(u, v) return w and leaves the existence and the
\* weight of every other edge unchanged.
C10_SetEdgeFrame ==
    [][call'.op = "set_edge" =>
          LET u == call'.args[1]
              v == call'.args[2]
              w == call'.args[3]
          IN  /\ get_edge(heap'[graph], u, v) = [err |-> NoErr, ret |-> w]
              /\ OtherEdges(heap'[graph], u, v) =
                     OtherEdges(heap[graph], u, v)]_vars

\* set_edge(u, u, w) has just set a self-loop on a node that has another
\* outgoing edge, in a graph where some label is still unregistered.
C10_Witness ==
    /\ call.op = "set_edge"
    /\ call.args[1] = call.args[2]
    /\ EdgeCount(heap[graph]) = 2
    /\ get_outdegree(heap[graph], call.args[1]).ret = 2
    /\ Registered(heap[graph]) # Labels

\* C11: where the edge u -> v exists, remove_edge(u, v) deletes exactly that
\* edge: get_edge(u, v) then fails with the edge-not-found error, the
\* outdegree of u is one less, every other edge keeps its existence and
\* weight, and no node is removed.
C11_RemoveEdgeFrame ==
    [][(call'.op = "remove_edge" /\
        HasEdge(heap[graph], call'.args[1], call'.args[2])) =>
          LET u == call'.args[1]
              v == call'.args[2]
          IN  /\ call'.err = NoErr
              /\ get_edge(heap'[graph], u, v).err = "EdgeNotFound"
              /\ ~HasEdge(heap'[graph], u, v)
              /\ get_outdegree(heap'[graph], u).ret =
                     get_outdegree(heap[graph], u).ret - 1
              /\ OtherEdges(heap'[graph], u, v) =
                     OtherEdges(heap[graph], u, v)
              /\ EdgeCount(heap'[graph]) = EdgeCount(heap[graph]) - 1
              /\ heap'[graph].len = heap[graph].len
              /\ heap'[graph].hashmap = heap[graph].hashmap
              /\ heap'[graph].directmap = heap[graph].directmap]_vars

\* remove_edge(u, v) has just succeeded for distinct u, v and the reverse
\* edge v -> u is still there.
C11_Witness ==
    /\ call.op = "remove_edge"
    /\ call.err = NoErr
    /\ call.args[1] # call.args[2]
    /\ HasEdge(heap[graph], call.args[2], call.args[1])
    /\ ~HasEdge(heap[graph], call.args[1], call.args[2])

\* The calls that look labels up with map_value and register nothing.
LookupOps ==
    {"get_edge", "remove_edge", "get_outdegree", "get_outneighbors",
     "get_inneighbors"}

\* The call c names a label that is not registered in g.
NamesUnregistered(c, g) ==
    \E i \in DOMAIN c.args : c.args[i] \notin Registered(g)

\* C12: get_edge, remove_edge, get_outdegree, get_outneighbors and
\* get_inneighbors, given a label that was never registered or (get_edge,
\* remove_edge) a pair of registered labels with no edge, fail with an error
\* and leave the graph unchanged: nothing is registered, the node count is
\* the same and no edge is added, removed or reweighted.
C12_FailedCallLeavesGraph ==
    [][call'.op \in LookupOps =>
         /\ NamesUnregistered(call', heap[graph]) =>
              /\ call'.err = "UnregisteredNode"
              /\ heap' = heap
         /\ (/\ call'.op \in {"get_edge", "remove_edge"}
             /\ ~NamesUnregistered(call', heap[graph])
             /\ ~HasEdge(heap[graph], call'.args[1], call'.args[2])) =>
              /\ call'.err = "EdgeNotFound"
              /\ heap' = heap]_vars

\* get_edge(u, v) has just failed on registered labels while the reverse
\* edge v -> u exists.
C12_Witness ==
    /\ call.op = "get_edge"
    /\ call.err = "EdgeNotFound"
    /\ HasEdge(heap[graph], call.args[2], call.args[1])

\* The calls made on the original and the calls made on the copy.
OriginalOps == {"register_node", "set_edge", "remove_edge"}
CopyOps == {"copy.register_node", "copy.set_edge", "copy.remove_edge"}

\* C13: copy() returns a graph that shares no mutable state with the
\* original: a register_node, set_edge or remove_edge on the copy leaves the
\* node count, the mapping and every edge of the original as they were, and
\* a call on the original leaves the copy as it was.
C13_CopyIsIndependent ==
    [][(G # 0 /\ G' = G) =>
         /\ G # graph
         /\ call'.op \in CopyOps => heap'[graph] = heap[graph]
         /\ call'.op \in OriginalOps => heap'[G] = heap[G]]_vars

\* A set_edge on the copy has added an edge that the original, which has
\* edges of its own, does not have.
C13_Witness ==
    /\ G # 0
    /\ call.op = "copy.set_edge"
    /\ EdgeCount(heap[graph]) > 0
    /\ EdgeCount(heap[G]) > EdgeCount(heap[graph])

\* The elements of a sequence.
Range(seq) == {seq[i] : i \in 1..Len(seq)}

\* C14: get_nodes_without_incoming returns exactly the registered labels u
\* with no edge v -> u, an edge u -> u counting as incoming; these are
\* exactly the labels whose get_inneighbors(u) is empty.
C14_NodesWithoutIncoming ==
    call.op = "get_nodes_without_incoming" =>
        /\ call.val = {u \in Registered(heap[graph]) :
                           \A v \in Registered(heap[graph]) :
                               ~HasEdge(heap[graph], v, u)}
        /\ call.val = {u \in Registered(heap[graph]) :
                           get_inneighbors(heap[graph], u).ret = <<>>}

\* get_nodes_without_incoming has just returned an isolated node and left
\* out a node whose only incoming edge is its own self-loop.
C14_Witness ==
    /\ call.op = "get_nodes_without_incoming"
    /\ \E u \in call.val : get_outdegree(heap[graph], u).ret = 0
    /\ \E u \in Registered(heap[graph]) \ call.val :
           \A v \in Registered(heap[graph]) :
               HasEdge(heap[graph], v, u) => v = u

\* C15: for every registered u, get_inneighbors(u) returns exactly the
\* pairs (v, w) such that the edge v -> u exists with current weight w, each
\* once and as labels, and get_outneighbors(v) contains (u, w) exactly when
\* get_inneighbors(u) contains (v, w).
C15_InneighborsExact ==
    (call.op = "get_inneighbors" /\ call.err = NoErr) =>
        LET g == heap[graph]
            u == call.args[1]
        IN  /\ Range(call.val) =
                   {<<e[1], e[3]>> : e \in {x \in Edges(g) : x[2] = u}}
            /\ Len(call.val) = Cardinality(Range(call.val))
            /\ \A v \in Registered(g) : \A w \in StoreWeights :
                   <<u, w>> \in Range(get_outneighbors(g, v).ret)
                       <=> <<v, w>> \in Range(call.val)

\* get_inneighbors(u) has just returned two pairs.
C15_Witness ==
    /\ call.op = "get_inneighbors"
    /\ call.err = NoErr
    /\ Len(call.val) = 2
    /\ call.val[1][2] # call.val[2][2]

----------------------------------------------------------------------------
(* solve_max_path as a function of the graph, with S.pop() resolved to the *)
(* label of least handle; used to compare the runs of SolverSpec.          *)

\* kahns_algorithm from the working copy g, frontier S0 and output L0.
RECURSIVE KahnLeastFirst(_, _, _)
KahnLeastFirst(g, S0, L0) ==
    IF S0 = {}
    THEN [L |-> L0,
          err |-> IF all_edges(g) # <<>> THEN "CycleDetected" ELSE NoErr]
    ELSE LET n  == CHOOSE x \in S0 :
                       \A y \in S0 : g.hashmap[x] <= g.hashmap[y]
             it == KahnIteration(g, S0 \ {n}, n)
         IN  IF it.err # NoErr THEN [L |-> Append(L0, n), err |-> it.err]
             ELSE KahnLeastFirst(it.g, it.S, Append(L0, n))

\* The forward pass over order[i..], from the dist dictionary d.
RECURSIVE ForwardFrom(_, _, _, _)
ForwardFrom(g, order, d, i) ==
    IF i > Len(order) THEN [dist |-> d, err |-> NoErr]
    ELSE LET m == ForwardMax(g, d, order[i])
         IN  IF m.err # NoErr THEN [dist |-> d, err |-> m.err]
             ELSE ForwardFrom(g, order,
                              [x \in DOMAIN d \cup {order[i]} |->
                                  IF x = order[i] THEN m.max_dist ELSE d[x]],
                              i + 1)

\* The backward walk from cur with the path so far; it ends at "s", at an
\* exception, or after more steps than the graph has nodes.
RECURSIVE BackwardFrom(_, _, _, _)
BackwardFrom(g, d, path, cur) ==
    IF cur = "s"
    THEN IF "t" \in DOMAIN d
         THEN [kind |-> "ok", err |-> NoErr, length |-> d["t"],
               path |-> Reverse(path)]
         ELSE Raised("KeyError")
    ELSE IF Len(path) > g.len + 1 THEN NoResult
    ELSE LET m == BackwardMax(g, d, cur)
         IN  IF m.err # NoErr THEN Raised(m.err)
             ELSE BackwardFrom(g, d, Append(path, m.max_node), m.max_node)

SolveLeastFirst(g) ==
    LET k == KahnLeastFirst(g, get_nodes_without_incoming(g), <<>>)
        f == ForwardFrom(g, k.L, ZipZero(k.L, g.len), 1)
    IN  IF k.err # NoErr THEN Raised(k.err)
        ELSE IF f.err # NoErr THEN Raised(f.err)
        ELSE BackwardFrom(g, f.dist, <<"t">>, "t")

\* C16: the outcome of solve_max_path does not depend on which element
\* S.pop() takes in Kahn's algorithm: on a DAG every run ends with the
\* length and path (or the exception) of the run that always pops the label
\* of least handle.
C16_ResultIndependentOfPop ==
    (pc = "done" /\ ~HasCycle(Input)) => result = SolveLeastFirst(Input)

\* A run has returned a length and a path after sorting the nodes in an
\* order other than the least-handle-first one.
C16_Witness ==
    /\ pc = "done"
    /\ result.kind = "ok"
    /\ sorted_nodes #
           KahnLeastFirst(Input, get_nodes_without_incoming(Input), <<>>).L

----------------------------------------------------------------------------
(* Termination, checked under FairSolverSpec.                              *)

\* Each node of the backward walk comes strictly before the previous one in
\* sorted_nodes (None, appended when no inneighbour was found, has position
\* 0), and the walk is no longer than the graph has nodes, plus "t".
WalkGoesBack ==
    /\ Len(critical_path) <= Input.len + 1
    /\ \A i \in 1..(Len(critical_path) - 1) :
           Pos(sorted_nodes, critical_path[i + 1]) <
               Pos(sorted_nodes, critical_path[i])

----------------------------------------------------------------------------
(* The loop invariant of kahns_algorithm, checked under SolverSpec.        *)

\* C18: at the start of every iteration of Kahn's loop, every label in S
\* has no inneighbour in the working copy and is not in L, every label in L
\* has no outgoing edge left in the working copy, and no label is in L
\* twice; this holds for graphs with and without cycles.
C18_KahnLoopInvariant ==
    pc = "kahn_loop" =>
        /\ \A u \in S :
               /\ get_inneighbors(heap[G], u).err = NoErr
               /\ get_inneighbors(heap[G], u).ret = <<>>
               /\ \A e \in Edges(heap[G]) : e[2] # u
               /\ u \notin Range(L)
        /\ \A u \in Range(L) :
               /\ get_outdegree(heap[G], u).ret = 0
               /\ \A e \in Edges(heap[G]) : e[1] # u
        /\ Cardinality(Range(L)) = Len(L)

\* An iteration starts with one label sorted and another in the frontier,
\* on a graph that has a cycle.
C18_Witness ==
    /\ pc = "kahn_loop"
    /\ L # <<>>
    /\ S # {}
    /\ HasCycle(Input)

----------------------------------------------------------------------------
(* create_probability_graph, checked under ProbSpec.                       *)

\* The handles (as sequence indices) whose outgoing weights sum to zero,
\* the handles without outgoing edges among them.
ZeroTotalRows(g) ==
    {k \in 1..Len(g.adj_list) : Total(g.adj_list[k]).num = 0}

\* Those of them that have at least one outgoing edge.
CancellingRows(g) == {k \in ZeroTotalRows(g) : g.adj_list[k] # <<>>}

\* C19 as stated: whenever some node has zero total outgoing weight, be it
\* a node without outgoing edges or one whose weights cancel,
\* create_probability_graph fails with a division by zero.
C19_ZeroTotalRaises ==
    [][(call'.op = "create_probability_graph" /\
        ZeroTotalRows(heap[graph]) # {}) =>
           call'.err = "ZeroDivisionError"]_vars

\* C19, amended: create_probability_graph fails with a division by zero
\* exactly when some node has outgoing edges whose weights sum to zero; the
\* rows before the first such node are already rescaled and the rows from
\* it on are untouched.  A node without outgoing edges is skipped: if no
\* node's weights cancel the call returns, every row with edges is
\* rescaled by its total and every empty row stays empty.
C19_CancellingTotalRaises ==
    [][call'.op = "create_probability_graph" =>
         LET g    == heap[graph]
             h    == heap'[graph]
             bad  == CancellingRows(g)
             stop == IF bad = {} THEN Len(g.adj_list) + 1
                     ELSE CHOOSE k \in bad : \A j \in bad : k <= j
         IN  /\ call'.err =
                    (IF bad # {} THEN "ZeroDivisionError" ELSE NoErr)
             /\ h.len = g.len
             /\ h.hashmap = g.hashmap
             /\ h.directmap = g.directmap
             /\ Len(h.adj_list) = Len(g.adj_list)
             /\ \A k \in 1..Len(g.adj_list) :
                    IF k < stop
                    THEN h.adj_list[k] =
                             [i \in 1..Len(g.adj_list[k]) |->
                                 <<g.adj_list[k][i][1],
                                   TrueDiv(g.adj_list[k][i][2],
                                           Total(g.adj_list[k]))>>]
                    ELSE h.adj_list[k] = g.adj_list[k]]_vars

\* The call has returned on a graph that has a node without outgoing edges
\* and a node whose row was rescaled to two fractions.
C19_Witness ==
    /\ call.op = "create_probability_graph"
    /\ call.err = NoErr
    /\ \E k \in 1..Len(heap[graph].adj_list) :
           heap[graph].adj_list[k] = <<>>
    /\ \E k \in 1..Len(heap[graph].adj_list) :
           Len(heap[graph].adj_list[k]) = 2

====
